---- MODULE Spec2Model ----
(***************************************************************************)
(* Model of semantic_vector_search.py: the module-level build of the       *)
(* normalized embedding matrix and the flat inner-product index, followed  *)
(* by the interactive query loop.                                          *)
(*                                                                         *)
(* float32 values are modelled as exact rationals <<n, d>> in lowest terms *)
(* (d > 0); NaN is <<0, 0>>.  The encoder's outputs are drawn from vectors *)
(* whose L2 norm is rational, so every operation of the program is exact.  *)
(***************************************************************************)
EXTENDS Integers, Sequences, FiniteSets, TLC

\* Number of entries of the knowledge base (8 in the program's literal).
NumKeys == 4

------------------------------------------------------------------------------
\* float32 arithmetic

RECURSIVE GCD(_, _)
GCD(a, b) == IF b = 0 THEN a ELSE GCD(b, a % b)

Abs(x) == IF x < 0 THEN -x ELSE x

Sign(x) == IF x < 0 THEN -1 ELSE IF x > 0 THEN 1 ELSE 0

NaN == <<0, 0>>

IsNaN(a) == a[1] = 0 /\ a[2] = 0

\* +inf is <<1, 0>>, -inf is <<-1, 0>>
IsInf(a) == a[1] /= 0 /\ a[2] = 0

\* n/d in lowest terms, d >= 0; n/0 is the infinity of n's sign, 0/0 is NaN
Rat(n, d) ==
    IF d = 0 THEN <<Sign(n), 0>>
    ELSE LET g == GCD(Abs(n), d) IN <<n \div g, d \div g>>

F(i) == <<i, 1>>

\* inf + (-inf) is NaN
FAdd(a, b) ==
    IF IsNaN(a) \/ IsNaN(b) THEN NaN
    ELSE IF IsInf(a) /\ IsInf(b) THEN (IF a = b THEN a ELSE NaN)
    ELSE Rat(a[1] * b[2] + b[1] * a[2], a[2] * b[2])

\* inf * 0 is NaN
FMul(a, b) ==
    IF IsNaN(a) \/ IsNaN(b) THEN NaN
    ELSE Rat(a[1] * b[1], a[2] * b[2])

\* 1/b: 1/0 is +inf (the divisor is a norm, never -0), 1/inf is 0
FRecip(b) == IF b[1] < 0 THEN <<-b[2], -b[1]>> ELSE <<b[2], b[1]>>

\* a / b (IEEE): x/0 is the infinity of x's sign, 0/0 and inf/inf are NaN;
\* numpy warns and carries on
FDiv(a, b) == IF IsNaN(a) \/ IsNaN(b) THEN NaN ELSE FMul(a, FRecip(b))

ISqrt(n) == CHOOSE r \in 0..n : r * r = n

\* sqrt of a negative number or of -inf is NaN, sqrt(+inf) is +inf
FSqrt(a) == IF IsNaN(a) \/ a[1] < 0 THEN NaN ELSE <<ISqrt(a[1]), ISqrt(a[2])>>

\* IEEE comparisons: every comparison with NaN is false
FLt(a, b) ==
    /\ ~IsNaN(a)
    /\ ~IsNaN(b)
    /\ IF IsInf(a) /\ IsInf(b) THEN a[1] < b[1]
       ELSE IF IsInf(a) THEN a[1] < 0
       ELSE IF IsInf(b) THEN b[1] > 0
       ELSE a[1] * b[2] < b[1] * a[2]

FEq(a, b) ==
    /\ ~IsNaN(a)
    /\ ~IsNaN(b)
    /\ IF IsInf(a) \/ IsInf(b) THEN a = b
       ELSE a[1] * b[2] = b[1] * a[2]

FGe(a, b) == ~IsNaN(a) /\ ~IsNaN(b) /\ ~FLt(a, b)

RECURSIVE FSum(_)
FSum(s) == IF s = <<>> THEN F(0) ELSE FAdd(s[1], FSum(Tail(s)))

------------------------------------------------------------------------------
\* numpy

\* np.linalg.norm(m, axis=1, keepdims=True): the L2 norm of one row
RowNorm(row) == FSqrt(FSum([i \in 1..Len(row) |-> FMul(row[i], row[i])]))

\* m /= np.linalg.norm(m, axis=1, keepdims=True)
NormalizeRows(m) ==
    [r \in 1..Len(m) |-> [i \in 1..Len(m[r]) |-> FDiv(m[r][i], RowNorm(m[r]))]]

------------------------------------------------------------------------------
\* The encoder (SentenceTransformer.encode): one raw vector per text.

Vec(a, b) == <<F(a), F(b)>>

\* raw embeddings the encoder may give a knowledge-base key
KeyVectors == {Vec(3, 4), Vec(10, 0), Vec(0, 0)}

\* model.encode([user_query]): the encoder is a function of the text; its
\* value on the texts the user may type
Encode(text) ==
    CASE text = <<>> -> Vec(0, 0)
      [] text = <<113, 32, 113>> -> Vec(4, 3)    \* "q q"
      [] text = <<120>> -> Vec(0, 2)             \* "x"
      [] text = <<81, 81>> -> Vec(4, -3)         \* "QQ"
      [] OTHER -> Vec(-5, 0)

------------------------------------------------------------------------------
\* faiss.IndexFlatIP

\* faiss.IndexFlatIP(d): an empty index of dimension d
IndexFlatIP(d) == [d |-> d, ntotal |-> 0, xb |-> <<>>]

\* variant of add that stores only the first row of x
IndexAddFirstRow(index, x) ==
    [index EXCEPT !.ntotal = index.ntotal + 1, !.xb = index.xb \o <<x[1]>>]

\* index.add(x): the rows of x are copied behind the stored ones; a row's
\* id is its position, counted from 0
IndexAdd(index, x) ==
    [index EXCEPT !.ntotal = index.ntotal + Len(x), !.xb = index.xb \o x]

\* fvec_inner_product
InnerProduct(x, y) == FSum([i \in 1..Len(x) |-> FMul(x[i], y[i])])

\* The value of an unused result slot: the lowest float32 (-3.4e38),
\* below every score; its id is -1.
Lowest == <<-1000000, 1>>

Neutral == [val |-> Lowest, id |-> -1]

\* CMin<float, int64>::cmp
CMinCmp(a, b) == FLt(a, b)

\* The repository pins no faiss version, and the builds of faiss differ in
\* how the result heap treats equal scores: its comparisons either break
\* ties on the value by the id (cmp2), or look at the value only (cmp), and
\* then equal scores come out by their position in the heap.
TieOrders == {"id", "position"}

\* CMin<float, int64>::cmp2: ties on the value are broken by the id
CMinCmp2(a1, b1, a2, b2) == FLt(a1, b1) \/ (FEq(a1, b1) /\ a2 < b2)

\* heap_heapify: k unused slots
HeapHeapify(k) == [j \in 1..k |-> Neutral]

\* Builds comparing with cmp2.  (val, id) is a total order on the heap's
\* entries, so the heap is modelled by its content.
\* The slot holding the heap's top: the least (val, id) under cmp2.
HeapTop(heap) ==
    CHOOSE m \in 1..Len(heap) :
        \A j \in 1..Len(heap) :
            j = m \/ CMinCmp2(heap[m].val, heap[j].val, heap[m].id, heap[j].id)
                  \/ (heap[j] = heap[m] /\ m < j)

\* heap_replace_top: the top leaves, (val, id) enters
HeapReplaceTop(heap, val, id) ==
    [heap EXCEPT ![HeapTop(heap)] = [val |-> val, id |-> id]]

\* HeapBlockResultHandler::add_result: a candidate enters only when the
\* top's value is strictly below its score
AddResult(heap, dis, idx) ==
    IF CMinCmp(heap[HeapTop(heap)].val, dis)
    THEN HeapReplaceTop(heap, dis, idx)
    ELSE heap

RemoveAt(s, m) == [j \in 1..(Len(s) - 1) |-> IF j < m THEN s[j] ELSE s[j + 1]]

\* variant that returns the heap's slots as they lie
HeapReorderUnsorted(heap) == heap

\* heap_reorder: the top is popped and put at the end of the list, until
\* the heap is empty
RECURSIVE HeapReorder(_)
HeapReorder(heap) ==
    IF heap = <<>> THEN <<>>
    ELSE LET m == HeapTop(heap)
         IN  Append(HeapReorder(RemoveAt(heap, m)), heap[m])

\* Builds comparing with cmp.  The heap is a binary heap in an array, the
\* children of slot i being slots 2i and 2i + 1.

\* heap_pop on the first k slots: the top leaves, slot k's entry sinks in
\* from the top
RECURSIVE HeapPopFrom(_, _, _)
HeapPopFrom(a, k, i) ==
    LET i1 == 2 * i
        i2 == 2 * i + 1
    IN  IF i1 > k THEN [a EXCEPT ![i] = a[k]]
        ELSE IF i2 = k + 1 \/ CMinCmp(a[i1].val, a[i2].val)
        THEN IF CMinCmp(a[k].val, a[i1].val)
             THEN [a EXCEPT ![i] = a[k]]
             ELSE HeapPopFrom([a EXCEPT ![i] = a[i1]], k, i1)
        ELSE IF CMinCmp(a[k].val, a[i2].val)
             THEN [a EXCEPT ![i] = a[k]]
             ELSE HeapPopFrom([a EXCEPT ![i] = a[i2]], k, i2)

HeapPop(a, k) == HeapPopFrom(a, k, 1)

\* heap_push into slot k: the entry rises from the bottom
RECURSIVE HeapPushFrom(_, _, _)
HeapPushFrom(a, i, e) ==
    IF i > 1 /\ CMinCmp(e.val, a[i \div 2].val)
    THEN HeapPushFrom([a EXCEPT ![i] = a[i \div 2]], i \div 2, e)
    ELSE [a EXCEPT ![i] = e]

HeapPush(a, k, val, id) == HeapPushFrom(a, k, [val |-> val, id |-> id])

\* a candidate enters only when the top's value is strictly below its score:
\* the top is popped and the candidate pushed
AddResultByPosition(heap, dis, idx) ==
    IF CMinCmp(heap[1].val, dis)
    THEN HeapPush(HeapPop(heap, Len(heap)), Len(heap), dis, idx)
    ELSE heap

\* heap_reorder: after i pops of which ii gave a used slot, the popped
\* entries lie at the end of the array; at the end they are moved to the
\* front and the rest is filled with unused slots
RECURSIVE HeapReorderFrom(_, _, _)
HeapReorderFrom(a, i, ii) ==
    IF i = Len(a)
    THEN [j \in 1..Len(a) |-> IF j <= ii THEN a[Len(a) - ii + j] ELSE Neutral]
    ELSE HeapReorderFrom([HeapPop(a, Len(a) - i) EXCEPT ![Len(a) - ii] = a[1]],
                         i + 1, IF a[1].id /= -1 THEN ii + 1 ELSE ii)

HeapReorderByPosition(heap) == HeapReorderFrom(heap, 0, 0)

\* exhaustive_inner_product_seq: every stored row is scored, in id order
RECURSIVE ScanAll(_, _, _, _, _)
ScanAll(heap, xb, x, i, ties) ==
    IF i > Len(xb) THEN heap
    ELSE ScanAll(IF ties = "id"
                 THEN AddResult(heap, InnerProduct(x, xb[i]), i - 1)
                 ELSE AddResultByPosition(heap, InnerProduct(x, xb[i]), i - 1),
                 xb, x, i + 1, ties)

\* the k result slots of one query row, best first
Results(index, x, k, ties) ==
    IF ties = "id"
    THEN HeapReorder(ScanAll(HeapHeapify(k), index.xb, x, 1, ties))
    ELSE HeapReorderByPosition(ScanAll(HeapHeapify(k), index.xb, x, 1, ties))

\* variant of search that removes the best hit from the index
SearchConsuming(index, x, k, ties) ==
    LET res == Results(index, x[1], k, ties)
    IN  [D |-> [j \in 1..k |-> res[j].val],
         I |-> [j \in 1..k |-> res[j].id],
         index |-> IF res[1].id >= 0
                   THEN [index EXCEPT !.ntotal = @ - 1,
                                      !.xb = RemoveAt(@, res[1].id + 1)]
                   ELSE index]

\* variant of search that swaps the best hit's row with row 0
SearchMovingToFront(index, x, k, ties) ==
    LET res == Results(index, x[1], k, ties)
    IN  [D |-> [j \in 1..k |-> res[j].val],
         I |-> [j \in 1..k |-> res[j].id],
         index |-> IF res[1].id >= 0
                   THEN [index EXCEPT !.xb[1] = index.xb[res[1].id + 1],
                                      !.xb[res[1].id + 1] = index.xb[1]]
                   ELSE index]

\* index.search(x, k) for the one-row query matrix x, in a build with the
\* given tie order: the distances D[0], the labels I[0], and the index as
\* the call leaves it (unchanged)
Search(index, x, k, ties) ==
    LET res == Results(index, x[1], k, ties)
    IN  [D |-> [j \in 1..k |-> res[j].val],
         I |-> [j \in 1..k |-> res[j].id],
         index |-> index]

------------------------------------------------------------------------------
\* Python strings, as sequences of characters

\* A character is its Unicode code point: "q" is 113, "Q" 81, " " 32.

\* the characters str.strip() removes (str.isspace): U+0009-U+000D,
\* U+001C-U+001F, U+0020, U+0085, U+00A0, U+1680, U+2000-U+200A, U+2028,
\* U+2029, U+202F, U+205F, U+3000
Whitespace ==
    (9..13) \cup (28..32) \cup {133, 160, 5760} \cup (8192..8202)
        \cup {8232, 8233, 8239, 8287, 12288}

RECURSIVE LStrip(_)
LStrip(s) == IF s /= <<>> /\ s[1] \in Whitespace THEN LStrip(Tail(s)) ELSE s

RECURSIVE RStrip(_)
RStrip(s) ==
    IF s /= <<>> /\ s[Len(s)] \in Whitespace
    THEN RStrip(SubSeq(s, 1, Len(s) - 1))
    ELSE s

\* str.strip()
Strip(s) == RStrip(LStrip(s))

\* the characters with a single-character lower case that differs from
\* them, as <<first, last, step, offset>>: first, first + step, ..., last
\* each go to themselves + offset (Unicode 14.0.0)
LowerRanges ==
    { <<65, 90, 1, 32>>, <<192, 214, 1, 32>>, <<216, 222, 1, 32>>,
      <<256, 302, 2, 1>>, <<306, 310, 2, 1>>, <<313, 327, 2, 1>>,
      <<330, 374, 2, 1>>, <<376, 376, 1, -121>>, <<377, 381, 2, 1>>,
      <<385, 385, 1, 210>>, <<386, 388, 2, 1>>, <<390, 390, 1, 206>>,
      <<391, 391, 1, 1>>, <<393, 394, 1, 205>>, <<395, 395, 1, 1>>,
      <<398, 398, 1, 79>>, <<399, 399, 1, 202>>, <<400, 400, 1, 203>>,
      <<401, 401, 1, 1>>, <<403, 403, 1, 205>>, <<404, 404, 1, 207>>,
      <<406, 406, 1, 211>>, <<407, 407, 1, 209>>, <<408, 408, 1, 1>>,
      <<412, 412, 1, 211>>, <<413, 413, 1, 213>>, <<415, 415, 1, 214>>,
      <<416, 420, 2, 1>>, <<422, 422, 1, 218>>, <<423, 423, 1, 1>>,
      <<425, 425, 1, 218>>, <<428, 428, 1, 1>>, <<430, 430, 1, 218>>,
      <<431, 431, 1, 1>>, <<433, 434, 1, 217>>, <<435, 437, 2, 1>>,
      <<439, 439, 1, 219>>, <<440, 440, 1, 1>>, <<444, 444, 1, 1>>,
      <<452, 452, 1, 2>>, <<453, 453, 1, 1>>, <<455, 455, 1, 2>>,
      <<456, 456, 1, 1>>, <<458, 458, 1, 2>>, <<459, 475, 2, 1>>,
      <<478, 494, 2, 1>>, <<497, 497, 1, 2>>, <<498, 500, 2, 1>>,
      <<502, 502, 1, -97>>, <<503, 503, 1, -56>>, <<504, 542, 2, 1>>,
      <<544, 544, 1, -130>>, <<546, 562, 2, 1>>, <<570, 570, 1, 10795>>,
      <<571, 571, 1, 1>>, <<573, 573, 1, -163>>, <<574, 574, 1, 10792>>,
      <<577, 577, 1, 1>>, <<579, 579, 1, -195>>, <<580, 580, 1, 69>>,
      <<581, 581, 1, 71>>, <<582, 590, 2, 1>>, <<880, 882, 2, 1>>,
      <<886, 886, 1, 1>>, <<895, 895, 1, 116>>, <<902, 902, 1, 38>>,
      <<904, 906, 1, 37>>, <<908, 908, 1, 64>>, <<910, 911, 1, 63>>,
      <<913, 929, 1, 32>>, <<931, 939, 1, 32>>, <<975, 975, 1, 8>>,
      <<984, 1006, 2, 1>>, <<1012, 1012, 1, -60>>, <<1015, 1015, 1, 1>>,
      <<1017, 1017, 1, -7>>, <<1018, 1018, 1, 1>>, <<1021, 1023, 1, -130>>,
      <<1024, 1039, 1, 80>>, <<1040, 1071, 1, 32>>, <<1120, 1152, 2, 1>>,
      <<1162, 1214, 2, 1>>, <<1216, 1216, 1, 15>>, <<1217, 1229, 2, 1>>,
      <<1232, 1326, 2, 1>>, <<1329, 1366, 1, 48>>, <<4256, 4293, 1, 7264>>,
      <<4295, 4295, 1, 7264>>, <<4301, 4301, 1, 7264>>,
      <<5024, 5103, 1, 38864>>, <<5104, 5109, 1, 8>>,
      <<7312, 7354, 1, -3008>>, <<7357, 7359, 1, -3008>>,
      <<7680, 7828, 2, 1>>, <<7838, 7838, 1, -7615>>, <<7840, 7934, 2, 1>>,
      <<7944, 7951, 1, -8>>, <<7960, 7965, 1, -8>>, <<7976, 7983, 1, -8>>,
      <<7992, 7999, 1, -8>>, <<8008, 8013, 1, -8>>, <<8025, 8031, 2, -8>>,
      <<8040, 8047, 1, -8>>, <<8072, 8079, 1, -8>>, <<8088, 8095, 1, -8>>,
      <<8104, 8111, 1, -8>>, <<8120, 8121, 1, -8>>, <<8122, 8123, 1, -74>>,
      <<8124, 8124, 1, -9>>, <<8136, 8139, 1, -86>>, <<8140, 8140, 1, -9>>,
      <<8152, 8153, 1, -8>>, <<8154, 8155, 1, -100>>, <<8168, 8169, 1, -8>>,
      <<8170, 8171, 1, -112>>, <<8172, 8172, 1, -7>>,
      <<8184, 8185, 1, -128>>, <<8186, 8187, 1, -126>>,
      <<8188, 8188, 1, -9>>, <<8486, 8486, 1, -7517>>,
      <<8490, 8490, 1, -8383>>, <<8491, 8491, 1, -8262>>,
      <<8498, 8498, 1, 28>>, <<8544, 8559, 1, 16>>, <<8579, 8579, 1, 1>>,
      <<9398, 9423, 1, 26>>, <<11264, 11311, 1, 48>>, <<11360, 11360, 1, 1>>,
      <<11362, 11362, 1, -10743>>, <<11363, 11363, 1, -3814>>,
      <<11364, 11364, 1, -10727>>, <<11367, 11371, 2, 1>>,
      <<11373, 11373, 1, -10780>>, <<11374, 11374, 1, -10749>>,
      <<11375, 11375, 1, -10783>>, <<11376, 11376, 1, -10782>>,
      <<11378, 11378, 1, 1>>, <<11381, 11381, 1, 1>>,
      <<11390, 11391, 1, -10815>>, <<11392, 11490, 2, 1>>,
      <<11499, 11501, 2, 1>>, <<11506, 11506, 1, 1>>, <<42560, 42604, 2, 1>>,
      <<42624, 42650, 2, 1>>, <<42786, 42798, 2, 1>>, <<42802, 42862, 2, 1>>,
      <<42873, 42875, 2, 1>>, <<42877, 42877, 1, -35332>>,
      <<42878, 42886, 2, 1>>, <<42891, 42891, 1, 1>>,
      <<42893, 42893, 1, -42280>>, <<42896, 42898, 2, 1>>,
      <<42902, 42920, 2, 1>>, <<42922, 42922, 1, -42308>>,
      <<42923, 42923, 1, -42319>>, <<42924, 42924, 1, -42315>>,
      <<42925, 42925, 1, -42305>>, <<42926, 42926, 1, -42308>>,
      <<42928, 42928, 1, -42258>>, <<42929, 42929, 1, -42282>>,
      <<42930, 42930, 1, -42261>>, <<42931, 42931, 1, 928>>,
      <<42932, 42946, 2, 1>>, <<42948, 42948, 1, -48>>,
      <<42949, 42949, 1, -42307>>, <<42950, 42950, 1, -35384>>,
      <<42951, 42953, 2, 1>>, <<42960, 42960, 1, 1>>, <<42966, 42968, 2, 1>>,
      <<42997, 42997, 1, 1>>, <<65313, 65338, 1, 32>>,
      <<66560, 66599, 1, 40>>, <<66736, 66771, 1, 40>>,
      <<66928, 66964, 2, 39>>, <<66929, 66938, 1, 39>>,
      <<66941, 66954, 1, 39>>, <<66957, 66962, 1, 39>>,
      <<66965, 66965, 1, 39>>, <<68736, 68786, 1, 64>>,
      <<71840, 71871, 1, 32>>, <<93760, 93791, 1, 32>>,
      <<125184, 125217, 1, 34>> }

\* the cased characters (Unicode property Cased), as <<first, last>>
CasedRanges ==
    { <<65, 90>>, <<97, 122>>, <<170, 170>>, <<181, 181>>, <<186, 186>>,
      <<192, 214>>, <<216, 246>>, <<248, 442>>, <<444, 447>>, <<452, 659>>,
      <<661, 696>>, <<704, 705>>, <<736, 740>>, <<837, 837>>, <<880, 883>>,
      <<886, 887>>, <<890, 893>>, <<895, 895>>, <<902, 902>>, <<904, 906>>,
      <<908, 908>>, <<910, 929>>, <<931, 1013>>, <<1015, 1153>>,
      <<1162, 1327>>, <<1329, 1366>>, <<1376, 1416>>, <<4256, 4293>>,
      <<4295, 4295>>, <<4301, 4301>>, <<4304, 4346>>, <<4349, 4351>>,
      <<5024, 5109>>, <<5112, 5117>>, <<7296, 7304>>, <<7312, 7354>>,
      <<7357, 7359>>, <<7424, 7615>>, <<7680, 7957>>, <<7960, 7965>>,
      <<7968, 8005>>, <<8008, 8013>>, <<8016, 8023>>, <<8025, 8025>>,
      <<8027, 8027>>, <<8029, 8029>>, <<8031, 8061>>, <<8064, 8116>>,
      <<8118, 8124>>, <<8126, 8126>>, <<8130, 8132>>, <<8134, 8140>>,
      <<8144, 8147>>, <<8150, 8155>>, <<8160, 8172>>, <<8178, 8180>>,
      <<8182, 8188>>, <<8305, 8305>>, <<8319, 8319>>, <<8336, 8348>>,
      <<8450, 8450>>, <<8455, 8455>>, <<8458, 8467>>, <<8469, 8469>>,
      <<8473, 8477>>, <<8484, 8484>>, <<8486, 8486>>, <<8488, 8488>>,
      <<8490, 8493>>, <<8495, 8500>>, <<8505, 8505>>, <<8508, 8511>>,
      <<8517, 8521>>, <<8526, 8526>>, <<8544, 8575>>, <<8579, 8580>>,
      <<9398, 9449>>, <<11264, 11492>>, <<11499, 11502>>, <<11506, 11507>>,
      <<11520, 11557>>, <<11559, 11559>>, <<11565, 11565>>, <<42560, 42605>>,
      <<42624, 42653>>, <<42786, 42887>>, <<42891, 42894>>, <<42896, 42954>>,
      <<42960, 42961>>, <<42963, 42963>>, <<42965, 42969>>, <<42997, 42998>>,
      <<43000, 43002>>, <<43824, 43866>>, <<43868, 43880>>, <<43888, 43967>>,
      <<64256, 64262>>, <<64275, 64279>>, <<65313, 65338>>, <<65345, 65370>>,
      <<66560, 66639>>, <<66736, 66771>>, <<66776, 66811>>, <<66928, 66938>>,
      <<66940, 66954>>, <<66956, 66962>>, <<66964, 66965>>, <<66967, 66977>>,
      <<66979, 66993>>, <<66995, 67001>>, <<67003, 67004>>, <<67456, 67456>>,
      <<67459, 67461>>, <<67463, 67504>>, <<67506, 67514>>, <<68736, 68786>>,
      <<68800, 68850>>, <<71840, 71903>>, <<93760, 93823>>,
      <<119808, 119892>>, <<119894, 119964>>, <<119966, 119967>>,
      <<119970, 119970>>, <<119973, 119974>>, <<119977, 119980>>,
      <<119982, 119993>>, <<119995, 119995>>, <<119997, 120003>>,
      <<120005, 120069>>, <<120071, 120074>>, <<120077, 120084>>,
      <<120086, 120092>>, <<120094, 120121>>, <<120123, 120126>>,
      <<120128, 120132>>, <<120134, 120134>>, <<120138, 120144>>,
      <<120146, 120485>>, <<120488, 120512>>, <<120514, 120538>>,
      <<120540, 120570>>, <<120572, 120596>>, <<120598, 120628>>,
      <<120630, 120654>>, <<120656, 120686>>, <<120688, 120712>>,
      <<120714, 120744>>, <<120746, 120770>>, <<120772, 120779>>,
      <<122624, 122633>>, <<122635, 122654>>, <<125184, 125251>>,
      <<127280, 127305>>, <<127312, 127337>>, <<127344, 127369>> }

\* the case-ignorable characters (Unicode property Case_Ignorable), as
\* <<first, last>>
CaseIgnorableRanges ==
    { <<39, 39>>, <<46, 46>>, <<58, 58>>, <<94, 94>>, <<96, 96>>,
      <<168, 168>>, <<173, 173>>, <<175, 175>>, <<180, 180>>, <<183, 184>>,
      <<688, 879>>, <<884, 885>>, <<890, 890>>, <<900, 901>>, <<903, 903>>,
      <<1155, 1161>>, <<1369, 1369>>, <<1375, 1375>>, <<1425, 1469>>,
      <<1471, 1471>>, <<1473, 1474>>, <<1476, 1477>>, <<1479, 1479>>,
      <<1524, 1524>>, <<1536, 1541>>, <<1552, 1562>>, <<1564, 1564>>,
      <<1600, 1600>>, <<1611, 1631>>, <<1648, 1648>>, <<1750, 1757>>,
      <<1759, 1768>>, <<1770, 1773>>, <<1807, 1807>>, <<1809, 1809>>,
      <<1840, 1866>>, <<1958, 1968>>, <<2027, 2037>>, <<2042, 2042>>,
      <<2045, 2045>>, <<2070, 2093>>, <<2137, 2139>>, <<2184, 2184>>,
      <<2192, 2193>>, <<2200, 2207>>, <<2249, 2306>>, <<2362, 2362>>,
      <<2364, 2364>>, <<2369, 2376>>, <<2381, 2381>>, <<2385, 2391>>,
      <<2402, 2403>>, <<2417, 2417>>, <<2433, 2433>>, <<2492, 2492>>,
      <<2497, 2500>>, <<2509, 2509>>, <<2530, 2531>>, <<2558, 2558>>,
      <<2561, 2562>>, <<2620, 2620>>, <<2625, 2626>>, <<2631, 2632>>,
      <<2635, 2637>>, <<2641, 2641>>, <<2672, 2673>>, <<2677, 2677>>,
      <<2689, 2690>>, <<2748, 2748>>, <<2753, 2757>>, <<2759, 2760>>,
      <<2765, 2765>>, <<2786, 2787>>, <<2810, 2815>>, <<2817, 2817>>,
      <<2876, 2876>>, <<2879, 2879>>, <<2881, 2884>>, <<2893, 2893>>,
      <<2901, 2902>>, <<2914, 2915>>, <<2946, 2946>>, <<3008, 3008>>,
      <<3021, 3021>>, <<3072, 3072>>, <<3076, 3076>>, <<3132, 3132>>,
      <<3134, 3136>>, <<3142, 3144>>, <<3146, 3149>>, <<3157, 3158>>,
      <<3170, 3171>>, <<3201, 3201>>, <<3260, 3260>>, <<3263, 3263>>,
      <<3270, 3270>>, <<3276, 3277>>, <<3298, 3299>>, <<3328, 3329>>,
      <<3387, 3388>>, <<3393, 3396>>, <<3405, 3405>>, <<3426, 3427>>,
      <<3457, 3457>>, <<3530, 3530>>, <<3538, 3540>>, <<3542, 3542>>,
      <<3633, 3633>>, <<3636, 3642>>, <<3654, 3662>>, <<3761, 3761>>,
      <<3764, 3772>>, <<3782, 3782>>, <<3784, 3789>>, <<3864, 3865>>,
      <<3893, 3893>>, <<3895, 3895>>, <<3897, 3897>>, <<3953, 3966>>,
      <<3968, 3972>>, <<3974, 3975>>, <<3981, 3991>>, <<3993, 4028>>,
      <<4038, 4038>>, <<4141, 4144>>, <<4146, 4151>>, <<4153, 4154>>,
      <<4157, 4158>>, <<4184, 4185>>, <<4190, 4192>>, <<4209, 4212>>,
      <<4226, 4226>>, <<4229, 4230>>, <<4237, 4237>>, <<4253, 4253>>,
      <<4348, 4348>>, <<4957, 4959>>, <<5906, 5908>>, <<5938, 5939>>,
      <<5970, 5971>>, <<6002, 6003>>, <<6068, 6069>>, <<6071, 6077>>,
      <<6086, 6086>>, <<6089, 6099>>, <<6103, 6103>>, <<6109, 6109>>,
      <<6155, 6159>>, <<6211, 6211>>, <<6277, 6278>>, <<6313, 6313>>,
      <<6432, 6434>>, <<6439, 6440>>, <<6450, 6450>>, <<6457, 6459>>,
      <<6679, 6680>>, <<6683, 6683>>, <<6742, 6742>>, <<6744, 6750>>,
      <<6752, 6752>>, <<6754, 6754>>, <<6757, 6764>>, <<6771, 6780>>,
      <<6783, 6783>>, <<6823, 6823>>, <<6832, 6862>>, <<6912, 6915>>,
      <<6964, 6964>>, <<6966, 6970>>, <<6972, 6972>>, <<6978, 6978>>,
      <<7019, 7027>>, <<7040, 7041>>, <<7074, 7077>>, <<7080, 7081>>,
      <<7083, 7085>>, <<7142, 7142>>, <<7144, 7145>>, <<7149, 7149>>,
      <<7151, 7153>>, <<7212, 7219>>, <<7222, 7223>>, <<7288, 7293>>,
      <<7376, 7378>>, <<7380, 7392>>, <<7394, 7400>>, <<7405, 7405>>,
      <<7412, 7412>>, <<7416, 7417>>, <<7468, 7530>>, <<7544, 7544>>,
      <<7579, 7679>>, <<8125, 8125>>, <<8127, 8129>>, <<8141, 8143>>,
      <<8157, 8159>>, <<8173, 8175>>, <<8189, 8190>>, <<8203, 8207>>,
      <<8216, 8217>>, <<8228, 8228>>, <<8231, 8231>>, <<8234, 8238>>,
      <<8288, 8292>>, <<8294, 8303>>, <<8305, 8305>>, <<8319, 8319>>,
      <<8336, 8348>>, <<8400, 8432>>, <<11388, 11389>>, <<11503, 11505>>,
      <<11631, 11631>>, <<11647, 11647>>, <<11744, 11775>>, <<11823, 11823>>,
      <<12293, 12293>>, <<12330, 12333>>, <<12337, 12341>>, <<12347, 12347>>,
      <<12441, 12446>>, <<12540, 12542>>, <<40981, 40981>>, <<42232, 42237>>,
      <<42508, 42508>>, <<42607, 42610>>, <<42612, 42621>>, <<42623, 42623>>,
      <<42652, 42655>>, <<42736, 42737>>, <<42752, 42785>>, <<42864, 42864>>,
      <<42888, 42890>>, <<42994, 42996>>, <<43000, 43001>>, <<43010, 43010>>,
      <<43014, 43014>>, <<43019, 43019>>, <<43045, 43046>>, <<43052, 43052>>,
      <<43204, 43205>>, <<43232, 43249>>, <<43263, 43263>>, <<43302, 43309>>,
      <<43335, 43345>>, <<43392, 43394>>, <<43443, 43443>>, <<43446, 43449>>,
      <<43452, 43453>>, <<43471, 43471>>, <<43493, 43494>>, <<43561, 43566>>,
      <<43569, 43570>>, <<43573, 43574>>, <<43587, 43587>>, <<43596, 43596>>,
      <<43632, 43632>>, <<43644, 43644>>, <<43696, 43696>>, <<43698, 43700>>,
      <<43703, 43704>>, <<43710, 43711>>, <<43713, 43713>>, <<43741, 43741>>,
      <<43756, 43757>>, <<43763, 43764>>, <<43766, 43766>>, <<43867, 43871>>,
      <<43881, 43883>>, <<44005, 44005>>, <<44008, 44008>>, <<44013, 44013>>,
      <<64286, 64286>>, <<64434, 64450>>, <<65024, 65039>>, <<65043, 65043>>,
      <<65056, 65071>>, <<65106, 65106>>, <<65109, 65109>>, <<65279, 65279>>,
      <<65287, 65287>>, <<65294, 65294>>, <<65306, 65306>>, <<65342, 65342>>,
      <<65344, 65344>>, <<65392, 65392>>, <<65438, 65439>>, <<65507, 65507>>,
      <<65529, 65531>>, <<66045, 66045>>, <<66272, 66272>>, <<66422, 66426>>,
      <<67456, 67461>>, <<67463, 67504>>, <<67506, 67514>>, <<68097, 68099>>,
      <<68101, 68102>>, <<68108, 68111>>, <<68152, 68154>>, <<68159, 68159>>,
      <<68325, 68326>>, <<68900, 68903>>, <<69291, 69292>>, <<69446, 69456>>,
      <<69506, 69509>>, <<69633, 69633>>, <<69688, 69702>>, <<69744, 69744>>,
      <<69747, 69748>>, <<69759, 69761>>, <<69811, 69814>>, <<69817, 69818>>,
      <<69821, 69821>>, <<69826, 69826>>, <<69837, 69837>>, <<69888, 69890>>,
      <<69927, 69931>>, <<69933, 69940>>, <<70003, 70003>>, <<70016, 70017>>,
      <<70070, 70078>>, <<70089, 70092>>, <<70095, 70095>>, <<70191, 70193>>,
      <<70196, 70196>>, <<70198, 70199>>, <<70206, 70206>>, <<70367, 70367>>,
      <<70371, 70378>>, <<70400, 70401>>, <<70459, 70460>>, <<70464, 70464>>,
      <<70502, 70508>>, <<70512, 70516>>, <<70712, 70719>>, <<70722, 70724>>,
      <<70726, 70726>>, <<70750, 70750>>, <<70835, 70840>>, <<70842, 70842>>,
      <<70847, 70848>>, <<70850, 70851>>, <<71090, 71093>>, <<71100, 71101>>,
      <<71103, 71104>>, <<71132, 71133>>, <<71219, 71226>>, <<71229, 71229>>,
      <<71231, 71232>>, <<71339, 71339>>, <<71341, 71341>>, <<71344, 71349>>,
      <<71351, 71351>>, <<71453, 71455>>, <<71458, 71461>>, <<71463, 71467>>,
      <<71727, 71735>>, <<71737, 71738>>, <<71995, 71996>>, <<71998, 71998>>,
      <<72003, 72003>>, <<72148, 72151>>, <<72154, 72155>>, <<72160, 72160>>,
      <<72193, 72202>>, <<72243, 72248>>, <<72251, 72254>>, <<72263, 72263>>,
      <<72273, 72278>>, <<72281, 72283>>, <<72330, 72342>>, <<72344, 72345>>,
      <<72752, 72758>>, <<72760, 72765>>, <<72767, 72767>>, <<72850, 72871>>,
      <<72874, 72880>>, <<72882, 72883>>, <<72885, 72886>>, <<73009, 73014>>,
      <<73018, 73018>>, <<73020, 73021>>, <<73023, 73029>>, <<73031, 73031>>,
      <<73104, 73105>>, <<73109, 73109>>, <<73111, 73111>>, <<73459, 73460>>,
      <<78896, 78904>>, <<92912, 92916>>, <<92976, 92982>>, <<92992, 92995>>,
      <<94031, 94031>>, <<94095, 94111>>, <<94176, 94177>>, <<94179, 94180>>,
      <<110576, 110579>>, <<110581, 110587>>, <<110589, 110590>>,
      <<113821, 113822>>, <<113824, 113827>>, <<118528, 118573>>,
      <<118576, 118598>>, <<119143, 119145>>, <<119155, 119170>>,
      <<119173, 119179>>, <<119210, 119213>>, <<119362, 119364>>,
      <<121344, 121398>>, <<121403, 121452>>, <<121461, 121461>>,
      <<121476, 121476>>, <<121499, 121503>>, <<121505, 121519>>,
      <<122880, 122886>>, <<122888, 122904>>, <<122907, 122913>>,
      <<122915, 122916>>, <<122918, 122922>>, <<123184, 123197>>,
      <<123566, 123566>>, <<123628, 123631>>, <<125136, 125142>>,
      <<125252, 125259>>, <<127995, 127999>>, <<917505, 917505>>,
      <<917536, 917631>>, <<917760, 917999>> }

IsCased(c) == \E r \in CasedRanges : r[1] <= c /\ c <= r[2]

IsCaseIgnorable(c) == \E r \in CaseIgnorableRanges : r[1] <= c /\ c <= r[2]

\* the lower case of each character of LowerRanges
LowerMap ==
    [c \in UNION {{r[1] + k * r[3] : k \in 0..((r[2] - r[1]) \div r[3])} :
                  r \in LowerRanges} |->
        LET r == CHOOSE r \in LowerRanges :
                     r[1] <= c /\ c <= r[2] /\ (c - r[1]) % r[3] = 0
        IN  c + r[4]]

\* the lower case of one character, as a string: U+0130 (capital I with
\* dot) goes to the two characters "i", U+0307; a character of LowerRanges
\* goes to its lower case; every other character stays
LowerChar(c) ==
    IF c = 304 THEN <<105, 775>>
    ELSE IF c \in DOMAIN LowerMap THEN <<LowerMap[c]>>
    ELSE <<c>>

\* the nearest position at or before j whose character is not
\* case-ignorable, 0 if there is none
RECURSIVE SkipBack(_, _)
SkipBack(s, j) ==
    IF j >= 1 /\ IsCaseIgnorable(s[j]) THEN SkipBack(s, j - 1) ELSE j

\* the nearest position at or after j whose character is not
\* case-ignorable, Len(s) + 1 if there is none
RECURSIVE SkipForward(_, _)
SkipForward(s, j) ==
    IF j <= Len(s) /\ IsCaseIgnorable(s[j]) THEN SkipForward(s, j + 1) ELSE j

\* a capital sigma (U+03A3) at position i ends a word: a cased character
\* comes before it and none after it, case-ignorable characters skipped
FinalSigma(s, i) ==
    LET b == SkipBack(s, i - 1)
        f == SkipForward(s, i + 1)
    IN  /\ b >= 1
        /\ IsCased(s[b])
        /\ (f > Len(s) \/ ~IsCased(s[f]))

RECURSIVE LowerFrom(_, _)
LowerFrom(s, i) ==
    IF i > Len(s) THEN <<>>
    ELSE (IF s[i] = 931
          THEN <<(IF FinalSigma(s, i) THEN 962 ELSE 963)>>
          ELSE LowerChar(s[i])) \o LowerFrom(s, i + 1)

\* str.lower(): character by character, except that a capital sigma at the
\* end of a word becomes the final sigma U+03C2
Lower(s) == LowerFrom(s, 1)

\* the lines input() may return
InputLines ==
    { <<113>>,                               \* "q"
      <<32, 81, 117, 73, 84, 9>>,            \* " QuIT\t"
      <<113, 13>>,                           \* "q\r"
      <<12, 101, 120, 105, 116, 12288>>,     \* "\fexit", U+3000
      <<>>,                                  \* ""
      <<113, 32, 113>>,                      \* "q q"
      <<120, 160>>,                          \* "x", U+00A0
      <<81, 81>>,                            \* "QQ"
      <<201, 88, 73, 84>>,                   \* U+00C9, "XIT"
      <<913, 931>> }                         \* U+0391, U+03A3

\* 'q', 'quit', 'exit'
ExitWords == { <<113>>, <<113, 117, 105, 116>>, <<101, 120, 105, 116>> }

\* variant of the exit test without lower()
IsExitCaseSensitive(user_query) == user_query \in ExitWords

\* user_query.lower() in ['q', 'quit', 'exit']
IsExit(user_query) == Lower(user_query) \in ExitWords

------------------------------------------------------------------------------
\* The program

\* data: the knowledge base, an insertion-ordered dict of question -> answer.
\* Every answer literal starts and ends with a line break.
\* "Q" and the digit i
Question(i) == <<81, 48 + i>>

\* "\n", "A", the digit i, "\n"
Answer(i) == <<10, 65, 48 + i, 10>>

Data == [i \in 1..NumKeys |-> [question |-> Question(i), answer |-> Answer(i)]]

\* list(data.keys())
Keys(d) == [i \in 1..Len(d) |-> d[i].question]

\* data[question]
DataGet(d, question) == d[CHOOSE i \in 1..Len(d) : d[i].question = question].answer

\* key_list[idx]: a negative idx counts from the end
KeyAt(keys, idx) == IF idx >= 0 THEN keys[idx + 1] ELSE keys[Len(keys) + idx + 1]

topN == 3

\* the cutoff 0.3
MinScore == <<3, 10>>

\* variant of the cutoff test with the comparison reversed
SkippedReversed(score) == FLt(MinScore, score)

\* "if score < 0.3: continue"
Skipped(score) == FLt(score, MinScore)

\* for idx, score in zip(I[0], D[0]): what the loop prints, in order
PrintLoop(Iv, Dv, keys, d) ==
    LET rows == [j \in 1..Len(Iv) |-> [idx |-> Iv[j], score |-> Dv[j]]]
        kept == SelectSeq(rows, LAMBDA r : ~Skipped(r.score))
    IN  [j \in 1..Len(kept) |->
            [idx |-> kept[j].idx, score |-> kept[j].score,
             question |-> KeyAt(keys, kept[j].idx),
             answer |-> Strip(DataGet(d, KeyAt(keys, kept[j].idx)))]]

NoIndex == [d |-> 0, ntotal |-> 0, xb |-> <<>>]

NoQuery == [x |-> <<>>, I |-> <<>>, D |-> <<>>, printed |-> <<>>, age |-> 0]

VARIABLES
    pc,               \* the statement the script is at
    data,             \* the knowledge base
    key_list,         \* the questions, by position
    key_embeddings,   \* the key matrix, raw and then normalized in place
    faiss_index,      \* the flat inner-product index
    user_query,       \* the stripped input line
    query_embedding,  \* the one-row query matrix, normalized in place
    D,                \* scores of the last search
    I,                \* ids of the last search
    printed,          \* what the last iteration printed
    input_line,       \* history: the line as typed
    encoded_keys,     \* history: the key matrix as the encoder returned it
    encoded_query,    \* history: the query row as the encoder returned it
    earlier,          \* history: one earlier query and what it returned
    tie_order         \* the installed faiss build's order of equal scores

vars == <<pc, data, key_list, key_embeddings, faiss_index, user_query,
          query_embedding, D, I, printed, input_line, encoded_keys,
          encoded_query, earlier, tie_order>>

Init ==
    /\ pc = "encode_keys"
    /\ data = Data
    /\ key_list = <<>>
    /\ key_embeddings = <<>>
    /\ faiss_index = NoIndex
    /\ user_query = <<>>
    /\ query_embedding = <<>>
    /\ D = <<>>
    /\ I = <<>>
    /\ printed = <<>>
    /\ input_line = <<>>
    /\ encoded_keys = <<>>
    /\ encoded_query = <<>>
    /\ earlier = NoQuery
    /\ tie_order \in TieOrders

\* lines 79-80: key_list = list(data.keys()); key_embeddings = model.encode(key_list)
EncodeKeys ==
    /\ pc = "encode_keys"
    /\ \E m \in [1..Len(data) -> KeyVectors] :
        /\ key_embeddings' = m
        /\ encoded_keys' = m
    /\ key_list' = Keys(data)
    /\ pc' = "normalize_keys"
    /\ UNCHANGED <<data, faiss_index, user_query, query_embedding, D, I,
                   printed, input_line, encoded_query, earlier, tie_order>>

\* line 81: key_embeddings /= np.linalg.norm(key_embeddings, axis=1, keepdims=True)
NormalizeKeys ==
    /\ pc = "normalize_keys"
    /\ key_embeddings' = NormalizeRows(key_embeddings)
    /\ pc' = "create_index"
    /\ UNCHANGED <<data, key_list, faiss_index, user_query, query_embedding,
                   D, I, printed, input_line, encoded_keys, encoded_query,
                   earlier, tie_order>>

\* line 84: faiss_index = faiss.IndexFlatIP(key_embeddings.shape[1])
CreateIndex ==
    /\ pc = "create_index"
    /\ faiss_index' = IndexFlatIP(Len(key_embeddings[1]))
    /\ pc' = "add_keys"
    /\ UNCHANGED <<data, key_list, key_embeddings, user_query, query_embedding,
                   D, I, printed, input_line, encoded_keys, encoded_query,
                   earlier, tie_order>>

\* line 85: faiss_index.add(key_embeddings)
AddKeys ==
    /\ pc = "add_keys"
    /\ faiss_index' = IndexAdd(faiss_index, key_embeddings)
    /\ pc' = "loop"
    /\ UNCHANGED <<data, key_list, key_embeddings, user_query, query_embedding,
                   D, I, printed, input_line, encoded_keys, encoded_query,
                   earlier, tie_order>>

\* line 90: at the end of the input, input() raises EOFError; nothing catches
\* it and the script ends there
EndOfInput ==
    /\ pc = "loop"
    /\ pc' = "eof"
    /\ UNCHANGED <<data, key_list, key_embeddings, faiss_index, user_query,
                   query_embedding, D, I, printed, input_line, encoded_keys,
                   encoded_query, earlier, tie_order>>

\* lines 90-93: an exit word ends the loop
ExitLoop ==
    /\ pc = "loop"
    /\ \E line \in InputLines :
        /\ IsExit(Strip(line))
        /\ input_line' = line
        /\ user_query' = Strip(line)
    /\ pc' = "exit"
    /\ UNCHANGED <<data, key_list, key_embeddings, faiss_index,
                   query_embedding, D, I, printed, encoded_keys,
                   encoded_query, earlier, tie_order>>

\* history: either this query is the one remembered from now on, or the
\* remembered one ages: 1 once a later query ran, 2 once a later query with
\* another vector ran
Remember(e, remember, x, Iv, Dv, out) ==
    IF remember
    THEN [x |-> x, I |-> Iv, D |-> Dv, printed |-> out, age |-> 0]
    ELSE IF e = NoQuery THEN e
    ELSE [e EXCEPT !.age = IF x /= e.x THEN 2 ELSE IF @ = 0 THEN 1 ELSE @]

\* lines 90-106: any other line is encoded, normalized, searched and its
\* results above the cutoff are printed
Query ==
    /\ pc = "loop"
    /\ \E line \in InputLines :
        /\ ~IsExit(Strip(line))
        /\ input_line' = line
        /\ user_query' = Strip(line)
        /\ encoded_query' = Encode(user_query')
        /\ query_embedding' = NormalizeRows(<<encoded_query'>>)
        /\ \E r \in {Search(faiss_index, query_embedding', topN, tie_order)} :
            /\ faiss_index' = r.index
            /\ D' = r.D
            /\ I' = r.I
        /\ printed' = PrintLoop(I', D', key_list, data)
        /\ \E remember \in BOOLEAN :
            earlier' = Remember(earlier, remember, encoded_query', I', D',
                                printed')
    /\ pc' = "loop"
    /\ UNCHANGED <<data, key_list, key_embeddings, encoded_keys, tie_order>>

Next ==
    \/ EncodeKeys
    \/ NormalizeKeys
    \/ CreateIndex
    \/ AddKeys
    \/ EndOfInput
    \/ ExitLoop
    \/ Query

Spec == Init /\ [][Next]_vars

------------------------------------------------------------------------------
\* Properties

\* a search has been executed
Searched == I /= <<>>

\* the score of stored entry id against the current query
Score(id) == InnerProduct(query_embedding[1], faiss_index.xb[id + 1])

\* a row that cannot be normalized: all zero, or holding a NaN or an
\* infinity
IsDegenerate(row) ==
    \/ \A i \in 1..Len(row) : row[i] = F(0)
    \/ \E i \in 1..Len(row) : IsNaN(row[i]) \/ IsInf(row[i])

\* the statements after the build: the loop and the two ways it ends
AfterBuild == {"loop", "exit", "eof"}

\* the slots of the last search that hold an entry
Hits == {j \in 1..Len(I) : I[j] >= 0}

\* C1: every printed result has score >= 0.3, and every candidate of the
\* search whose score is >= 0.3 is printed.
C1_ThresholdSemantics ==
    Searched =>
        /\ \A p \in 1..Len(printed) : FGe(printed[p].score, MinScore)
        /\ \A j \in 1..Len(I) :
              FGe(D[j], MinScore) =>
                  \E p \in 1..Len(printed) :
                      printed[p].idx = I[j] /\ printed[p].score = D[j]

C1_Witness ==
    /\ Searched
    /\ Len(printed) = 2
    /\ \E j \in Hits : FLt(D[j], MinScore)

\* C2 as stated: results are in non-increasing score order and, on equal
\* scores, the lower insertion index comes first.
C2_TieLowerIndexFirst ==
    \A a, b \in Hits :
        a < b => /\ FGe(D[a], D[b])
                 /\ FEq(D[a], D[b]) => I[a] < I[b]

\* C3 as stated: a search returns exactly min(k, entry_count) distinct
\* entries, and no entry left out scores strictly higher than a returned one.
C3_ExactTopK ==
    Searched =>
        LET n == IF topN < faiss_index.ntotal THEN topN ELSE faiss_index.ntotal
            ids == {I[j] : j \in Hits}
        IN  /\ Cardinality(Hits) = n
            /\ Cardinality(ids) = n
            /\ ids \subseteq 0..(faiss_index.ntotal - 1)
            /\ \A e \in (0..(faiss_index.ntotal - 1)) \ ids :
                   \A j \in Hits : ~FLt(D[j], Score(e))

\* C4: what is printed is a prefix of the ranked candidates, in their order.
C4_FilterTruncatesTail ==
    Searched =>
        /\ Len(printed) <= Len(I)
        /\ \A p \in 1..Len(printed) :
              printed[p].idx = I[p] /\ printed[p].score = D[p]

C4_Witness ==
    /\ Searched
    /\ Len(printed) = 1
    /\ \E j \in Hits : j > 1

\* C5 as stated: a degenerate vector is never normalized past: the build
\* does not get beyond line 81 with one, and no search runs for one.
C5_DegenerateRejected ==
    /\ pc \notin {"encode_keys", "normalize_keys"} =>
           \A r \in 1..Len(encoded_keys) : ~IsDegenerate(encoded_keys[r])
    /\ Searched => ~IsDegenerate(encoded_query)

\* C6: a query with the same vector as an earlier one returns the same
\* ids, scores and printed results, whatever ran in between.
C6_Determinism ==
    (Searched /\ earlier /= NoQuery /\ earlier.x = encoded_query) =>
        /\ earlier.I = I
        /\ earlier.D = D
        /\ earlier.printed = printed

C6_Witness ==
    /\ Searched
    /\ earlier.age = 2
    /\ earlier.x = encoded_query
    /\ printed /= <<>>

\* C7: from the end of the build on, the index, the key matrix, key_list and
\* data are what the build left.
C7_QueriesDoNotMutate ==
    pc \in AfterBuild =>
        /\ faiss_index = [d |-> Len(encoded_keys[1]), ntotal |-> Len(Data),
                          xb |-> NormalizeRows(encoded_keys)]
        /\ key_embeddings = NormalizeRows(encoded_keys)
        /\ key_list = Keys(Data)
        /\ data = Data

C7_Witness ==
    /\ pc = "loop"
    /\ Searched
    /\ printed = <<>>
    /\ earlier.age = 2
    /\ earlier.printed /= <<>>

\* the index holds every key's normalized row
BuildComplete ==
    /\ faiss_index.ntotal = Len(data)
    /\ Len(faiss_index.xb) = Len(data)
    /\ \A r \in 1..Len(data) :
          faiss_index.xb[r] = NormalizeRows(<<encoded_keys[r]>>)[1]

\* once the loop is reached, no step changes what the build wrote
NoBuildStepAfterBuild ==
    pc \in AfterBuild =>
        /\ pc' \in AfterBuild
        /\ UNCHANGED <<faiss_index, key_embeddings, key_list, encoded_keys>>

\* C8: no line is read and no search runs before the build is complete, and
\* once the loop is reached no build step runs again.
C8_BuildThenQuery ==
    /\ [](pc \in AfterBuild => BuildComplete)
    /\ [](pc \notin AfterBuild =>
            (~Searched /\ input_line = <<>> /\ printed = <<>>))
    /\ [][NoBuildStepAfterBuild]_vars

C8_Witness ==
    /\ pc = "loop"
    /\ Searched
    /\ earlier.age = 1
    /\ \E r \in 1..Len(encoded_keys) : encoded_keys[r] /= key_embeddings[r]

\* what a step that reads a line in the loop must do with it
LineStep ==
    LET w == Lower(Strip(input_line'))
        isExit == w \in {<<113>>, <<113, 117, 105, 116>>,
                         <<101, 120, 105, 116>>}
    IN  /\ (pc' /= "loop") <=> isExit
        /\ isExit => /\ pc' = "exit"
                     /\ UNCHANGED <<encoded_query, query_embedding, D, I,
                                    printed, faiss_index>>
        /\ ~isExit =>
              /\ encoded_query' = Encode(Strip(input_line'))
              /\ Len(I') = 3 /\ Len(D') = 3
              /\ \A j \in 1..3 : I'[j] >= 0 => D'[j] =
                    InnerProduct(NormalizeRows(<<encoded_query'>>)[1],
                                 faiss_index.xb[I'[j] + 1])

\* a step that ends the loop at the end of the input: no line is read,
\* nothing is encoded or searched
EndOfInputStep ==
    /\ pc' = "eof"
    /\ UNCHANGED <<input_line, user_query, encoded_query, query_embedding,
                   D, I, printed, faiss_index>>

OnlyLineSteps == pc = "loop" => LineStep

LineOrEndOfInputStep == pc = "loop" => (LineStep \/ EndOfInputStep)

\* C10 as stated: the loop ends exactly on a line that, stripped and
\* lower-cased, is q, quit or exit, and then nothing is encoded or searched;
\* any other line runs one search for 3 candidates and the loop goes on.
C10_ExitWords == [][OnlyLineSteps]_vars

\* C10 amended: as stated for every line that is read; the loop also ends,
\* with no exit word, no encoding and no search, at the end of the input.
C10_ExitWordsOrEndOfInput == [][LineOrEndOfInputStep]_vars

C10_Witness ==
    /\ pc = "exit"
    /\ input_line = <<32, 81, 117, 73, 84, 9>>
    /\ Searched
    /\ encoded_query = Encode(<<>>)

====
